---- MODULE Spec2Model ----
(***************************************************************************)
(* StairGen-3D: the configuration state kept by App (src/App.tsx) and the  *)
(* staircase profile computed by StairModel                                *)
(* (src/components/Staircase3D.tsx, first component of the file).          *)
(*                                                                         *)
(* Numbers.  The program computes with JavaScript doubles.  The model      *)
(* computes with exact real numbers of the form  a + b*sec  where a and b  *)
(* are rationals and  sec = 1 / Math.cos(Math.atan2(riserH, treadD))       *)
(*                        = sqrt(1 + m^2),  m = riserH / treadD.           *)
(* Every quantity of the profile is of this form, because the only         *)
(* irrational the code introduces is verticalOffset = thickness * sec.     *)
(* A rational is a pair <<n, d>> in lowest terms with d > 0.               *)
(***************************************************************************)
EXTENDS Integers, Sequences, FiniteSets, TLC

VARIABLES
    config,        \* App: useState<StairConfig>; the config prop of StairModel
    pc,            \* position inside the geometry callback of StairModel
    shape,         \* THREE.Shape: the points given to moveTo / lineTo, in order
    stepCoords,    \* stepCoords / dimensionPoints
    scan,          \* segments and the scan variables currentSegType, segStart*
    totalRun,      \* calculatedTotalRun
    totalRise,     \* calculatedTotalRise
    dims,          \* <<the annotation lines of the dims callback>>, <<>> before it
    lastRun,       \* <<polygon and annotation lines of a second run>>, or <<>>
    oldRun,        \* <<polygon of the single-landing StairModel>>, or <<>>
    memo           \* the three useMemo cells of StairModel as App renders it

vars == <<config, pc, shape, stepCoords, scan, totalRun, totalRise, dims, lastRun, oldRun,
          memo>>

----------------------------------------------------------------------------
(* Exact rational arithmetic *)

Abs(n) == IF n < 0 THEN -n ELSE n

Sgn(n) == IF n < 0 THEN -1 ELSE IF n = 0 THEN 0 ELSE 1

RECURSIVE GCD(_, _)
GCD(a, b) == IF b = 0 THEN a ELSE GCD(b, a % b)

\* n / d in lowest terms, d # 0
Norm(n, d) ==
    LET s == IF d < 0 THEN -1 ELSE 1
        g == GCD(Abs(n), Abs(d))
    IN  <<(s * n) \div g, (s * d) \div g>>

R(n) == <<n, 1>>

RAdd(x, y) == Norm(x[1] * y[2] + y[1] * x[2], x[2] * y[2])
RSub(x, y) == Norm(x[1] * y[2] - y[1] * x[2], x[2] * y[2])
RMul(x, y) == Norm(x[1] * y[1], x[2] * y[2])
RDiv(x, y) == Norm(x[1] * y[2], x[2] * y[1])
RSign(x) == Sgn(x[1])
RLess(x, y) == RSign(RSub(x, y)) < 0
RLeq(x, y) == RSign(RSub(x, y)) <= 0

(* Numbers a + b*sec.  sec2 is sec^2 = 1 + m^2, a rational >= 1. *)

Q(r) == [a |-> r, b |-> R(0)]
QZero == Q(R(0))
QAdd(p, q) == [a |-> RAdd(p.a, q.a), b |-> RAdd(p.b, q.b)]
QSub(p, q) == [a |-> RSub(p.a, q.a), b |-> RSub(p.b, q.b)]
QScale(p, r) == [a |-> RMul(p.a, r), b |-> RMul(p.b, r)]
QDivR(p, r) == [a |-> RDiv(p.a, r), b |-> RDiv(p.b, r)]
QMul(p, q, sec2) ==
    [a |-> RAdd(RMul(p.a, q.a), RMul(RMul(p.b, q.b), sec2)),
     b |-> RAdd(RMul(p.a, q.b), RMul(p.b, q.a))]

\* sign of a + b*sec: when a and b pull in opposite directions, compare
\* (a/b)^2 with sec^2
QSign(p, sec2) ==
    LET sa == RSign(p.a)
        sb == RSign(p.b)
    IN  IF sb = 0 THEN sa
        ELSE IF sa = 0 \/ sa = sb THEN sb
        ELSE LET ratio == RDiv(p.a, p.b)
                 c == RSign(RSub(RMul(ratio, ratio), sec2))
             IN  IF c = 0 THEN 0 ELSE IF c > 0 THEN sa ELSE sb

QEq(p, q, sec2) == QSign(QSub(p, q), sec2) = 0
QLess(p, q, sec2) == QSign(QSub(p, q), sec2) < 0
QLeq(p, q, sec2) == QSign(QSub(p, q), sec2) <= 0
\* Math.max(0, p) and Math.min(0, p)
QMax0(p, sec2) == IF QSign(p, sec2) < 0 THEN QZero ELSE p
QMin0(p, sec2) == IF QSign(p, sec2) > 0 THEN QZero ELSE p

Pt(x, y) == [x |-> x, y |-> y]
Origin == Pt(QZero, QZero)

----------------------------------------------------------------------------
(* StairModel: conversion constants *)

CmPerM == 100

riserH(cfg) == RDiv(RDiv(R(cfg.totalHeight), R(CmPerM)), R(cfg.numSteps))
treadD(cfg) == RDiv(R(cfg.stepDepth), R(CmPerM))
stairW(cfg) == RDiv(R(cfg.width), R(CmPerM))
thickness(cfg) == RDiv(R(cfg.slabThickness), R(CmPerM))

\* Map stepIndex -> depth in metres; Map.set in list order, so the last
\* landing registered at a step wins
landingMap(landings) ==
    [s \in {landings[k].stepIndex : k \in DOMAIN landings} |->
        LET last == CHOOSE k \in DOMAIN landings :
                        /\ landings[k].stepIndex = s
                        /\ \A j \in DOMAIN landings :
                               landings[j].stepIndex = s => j <= k
        IN  RDiv(R(landings[last].depth), R(CmPerM))]

(* 1. Top profile: one riser and one tread per step *)

isLandingStep(lmap, i) == i \in DOMAIN lmap

StepRun_Uniform(cfg, lmap, i) == treadD(cfg)

StepRun(cfg, lmap, i) == IF isLandingStep(lmap, i) THEN lmap[i] ELSE treadD(cfg)

StepRise_FirstOnFloor(cfg, lmap, i) == IF i = 1 THEN R(0) ELSE riserH(cfg)

StepRise(cfg, lmap, i) == riserH(cfg)

RECURSIVE TopProfileLoop(_, _, _, _)
TopProfileLoop(cfg, lmap, i, acc) ==
    IF i > cfg.numSteps THEN acc
    ELSE LET y == RAdd(acc.currentY, StepRise(cfg, lmap, i))
             run == StepRun(cfg, lmap, i)
             x == RAdd(acc.currentX, run)
         IN  TopProfileLoop(cfg, lmap, i + 1,
                 [currentX |-> x,
                  currentY |-> y,
                  shape |-> acc.shape \o <<Pt(Q(acc.currentX), Q(y)), Pt(Q(x), Q(y))>>,
                  stepCoords |-> Append(acc.stepCoords,
                      [stepIdx |-> i, startX |-> acc.currentX, startY |-> y,
                       depth |-> run, isLanding |-> isLandingStep(lmap, i)])])

\* shape.moveTo(0, 0) followed by the step loop
TopProfile_ReusesPath(cfg) ==
    TopProfileLoop(cfg, landingMap(cfg.landings), 1,
        [currentX |-> R(0), currentY |-> R(0), shape |-> shape \o <<Origin>>,
         stepCoords |-> <<>>])

TopProfile(cfg) ==
    TopProfileLoop(cfg, landingMap(cfg.landings), 1,
        [currentX |-> R(0), currentY |-> R(0), shape |-> <<Origin>>, stepCoords |-> <<>>])

(* 2. Segments: maximal runs of steps of one kind *)

SegType(step) == IF step.isLanding THEN "landing" ELSE "flight"

ClosedSegment_EndsAtSplit(acc, step) ==
    [type |-> acc.currentSegType,
     startStep |-> acc.segStartStep,
     endStep |-> step.stepIdx,
     startX |-> acc.segStartX,
     startY |-> acc.segStartY,
     endX |-> step.startX,
     endY |-> step.startY]

ClosedSegment(acc, step) ==
    [type |-> acc.currentSegType,
     startStep |-> acc.segStartStep,
     endStep |-> step.stepIdx - 1,
     startX |-> acc.segStartX,
     startY |-> acc.segStartY,
     endX |-> step.startX,
     endY |-> step.startY]

\* the scan variables once a segment starts at step
Opened(segs, step) ==
    [segments |-> segs,
     currentSegType |-> SegType(step),
     segStartStep |-> step.stepIdx,
     segStartX |-> step.startX,
     segStartY |-> step.startY]

RECURSIVE SegmentLoop(_, _, _)
SegmentLoop(sc, i, acc) ==
    IF i > Len(sc) THEN acc
    ELSE LET step == sc[i]
             type == SegType(step)
         IN  SegmentLoop(sc, i + 1,
                 IF acc.currentSegType = "null"
                 THEN Opened(acc.segments, step)
                 ELSE IF acc.currentSegType # type
                 THEN Opened(Append(acc.segments, ClosedSegment(acc, step)), step)
                 ELSE acc)

LastSegment_EndsAtStart(acc, numSteps, run, rise) ==
    [type |-> acc.currentSegType,
     startStep |-> acc.segStartStep,
     endStep |-> numSteps,
     startX |-> acc.segStartX,
     startY |-> acc.segStartY,
     endX |-> acc.segStartX,
     endY |-> acc.segStartY]

LastSegment(acc, numSteps, run, rise) ==
    [type |-> acc.currentSegType,
     startStep |-> acc.segStartStep,
     endStep |-> numSteps,
     startX |-> acc.segStartX,
     startY |-> acc.segStartY,
     endX |-> run,
     endY |-> rise]

\* the scan state after the loop and the push of the last segment
IdentifySegments(sc, numSteps, run, rise) ==
    LET acc == SegmentLoop(sc, 1,
                   [segments |-> <<>>, currentSegType |-> "null", segStartStep |-> 1,
                    segStartX |-> R(0), segStartY |-> R(0)])
    IN  [acc EXCEPT !.segments = Append(acc.segments, LastSegment(acc, numSteps, run, rise))]

(* 3. Soffit *)

Slope_Flat(cfg) == R(0)

\* Math.tan(Math.atan2(riserH, treadD))
Slope(cfg) == RDiv(riserH(cfg), treadD(cfg))

\* (1 / Math.cos(Math.atan2(riserH, treadD)))^2
Sec2(cfg) == RAdd(R(1), RMul(Slope(cfg), Slope(cfg)))

\* thickness / Math.cos(angle)
verticalOffset(cfg) == [a |-> R(0), b |-> thickness(cfg)]

getSoffitY_FirstSegment(x, seg, sv, cfg) ==
    IF seg.type = "landing"
    THEN Q(RSub(seg.startY, thickness(cfg)))
    ELSE QSub(Q(RAdd(RMul(Slope(cfg), RSub(RSub(x, sv.segments[1].startX), treadD(cfg))),
                     sv.segments[1].startY)),
              verticalOffset(cfg))

\* the flight branch reads the scan variables segStartX, segStartY of the
\* enclosing callback, not seg.startX, seg.startY
getSoffitY(x, seg, sv, cfg) ==
    IF seg.type = "landing"
    THEN Q(RSub(seg.startY, thickness(cfg)))
    ELSE QSub(Q(RAdd(RMul(Slope(cfg), RSub(RSub(x, sv.segStartX), treadD(cfg))),
                     sv.segStartY)),
              verticalOffset(cfg))

TopTerminus_Unclamped(sv, cfg) ==
    LET lastSeg == sv.segments[Len(sv.segments)]
    IN  Pt(Q(lastSeg.endX), getSoffitY(lastSeg.endX, lastSeg, sv, cfg))

\* shape.lineTo(lastSeg.endX, Math.max(0, lastSoffitY))
TopTerminus(sv, cfg) ==
    LET lastSeg == sv.segments[Len(sv.segments)]
    IN  Pt(Q(lastSeg.endX), QMax0(getSoffitY(lastSeg.endX, lastSeg, sv, cfg), Sec2(cfg)))

SlopedAt_NoTread(flatY, seg, cfg) ==
    QAdd(QDivR(QAdd(Q(RSub(flatY, seg.startY)), verticalOffset(cfg)), Slope(cfg)),
         Q(seg.startX))

\* x where the soffit line of the flight seg reaches the level flatY
SlopedAt(flatY, seg, cfg) ==
    QAdd(QDivR(QAdd(Q(RSub(flatY, seg.startY)), verticalOffset(cfg)), Slope(cfg)),
         Q(RAdd(seg.startX, treadD(cfg))))

Intersection_CurrLevel(segCurr, segPrev, cfg) ==
    LET flatY == RSub(segCurr.startY, thickness(cfg))
    IN  IF segCurr.type = "landing"
        THEN Pt(SlopedAt(flatY, segPrev, cfg), Q(flatY))
        ELSE Pt(SlopedAt(flatY, segCurr, cfg), Q(flatY))

Intersection(segCurr, segPrev, cfg) ==
    IF segCurr.type = "landing"
    THEN LET flatY == RSub(segCurr.startY, thickness(cfg))
         IN  Pt(SlopedAt(flatY, segPrev, cfg), Q(flatY))
    ELSE LET flatY == RSub(segPrev.startY, thickness(cfg))
         IN  Pt(SlopedAt(flatY, segCurr, cfg), Q(flatY))

RECURSIVE Junctions(_, _, _)

Junctions_StopsEarly(segs, i, cfg) ==
    IF i <= 2 THEN <<>>
    ELSE <<Intersection(segs[i], segs[i - 1], cfg)>> \o Junctions(segs, i - 1, cfg)

\* for (let i = segments.length - 1; i > 0; i--), with 1-based indices
Junctions(segs, i, cfg) ==
    IF i <= 1 THEN <<>>
    ELSE <<Intersection(segs[i], segs[i - 1], cfg)>> \o Junctions(segs, i - 1, cfg)

FloorTerminus(firstSeg, cfg) ==
    IF firstSeg.type = "landing"
    THEN LET y == Q(RSub(firstSeg.startY, thickness(cfg)))
         IN  <<Pt(QZero, y), Origin, Pt(QZero, QMin0(y, Sec2(cfg)))>>
    ELSE LET startIntersectX ==
                 QAdd(QDivR(QSub(verticalOffset(cfg), Q(riserH(cfg))), Slope(cfg)),
                      Q(treadD(cfg)))
         IN  <<Pt(QMax0(startIntersectX, Sec2(cfg)), QZero)>>

Close_Omitted == <<>>

\* shape.lineTo(0, 0) // Close
Close == <<Origin>>

Soffit(sv, cfg) ==
    <<TopTerminus(sv, cfg)>>
        \o Junctions(sv.segments, Len(sv.segments), cfg)
        \o FloorTerminus(sv.segments[1], cfg)
        \o Close


(* 4. Dimension logic: the annotation lines *)

\* a point [x, y, z] of a dimension line
P3(x, y, z) == [x |-> x, y |-> y, z |-> z]

\* Number.prototype.toFixed(digits) of a non-negative number, as the number
\* it prints: round to the nearest multiple of 10^-digits, halves upwards
ToFixed(r, digits) ==
    LET scale == IF digits = 0 THEN 1 ELSE 10
        n == r[1] * scale
    IN  Norm((2 * n + r[2]) \div (2 * r[2]), scale)

heightLine(cfg, run, rise) ==
    [start |-> P3(Q(RAdd(run, Norm(1, 5))), QZero, stairW(cfg)),
     end |-> P3(Q(RAdd(run, Norm(1, 5))), Q(rise), stairW(cfg)),
     label |-> R(cfg.totalHeight)]

runLine(cfg, run) ==
    [start |-> P3(QZero, Q(Norm(-1, 5)), stairW(cfg)),
     end |-> P3(Q(run), Q(Norm(-1, 5)), stairW(cfg)),
     label |-> ToFixed(RMul(run, R(CmPerM)), 0)]

widthLine(cfg) ==
    LET x == Q(RDiv(treadD(cfg), R(2)))
        y == Q(RAdd(riserH(cfg), Norm(3, 10)))
    IN  [start |-> P3(x, y, R(0)), end |-> P3(x, y, stairW(cfg)), label |-> R(cfg.width)]

sampleStepIdx_AnyNonLanding(points) ==
    LET found == {k \in DOMAIN points : ~points[k].isLanding}
    IN  IF found = {} THEN 1
        ELSE points[CHOOSE k \in found : \A j \in found : k <= j].stepIdx

\* dimensionPoints.find(p => !p.isLanding && p.stepIdx > 1), else step 1
sampleStepIdx(points) ==
    LET found == {k \in DOMAIN points : ~points[k].isLanding /\ points[k].stepIdx > 1}
    IN  IF found = {} THEN 1
        ELSE points[CHOOSE k \in found : \A j \in found : k <= j].stepIdx

stepRiserLine(cfg, points) ==
    LET sampleStep == points[sampleStepIdx(points)]
        x == Q(RSub(sampleStep.startX, Norm(3, 20)))
    IN  [start |-> P3(x, Q(RSub(sampleStep.startY, riserH(cfg))), stairW(cfg)),
         end |-> P3(x, Q(sampleStep.startY), stairW(cfg)),
         label |-> ToFixed(RMul(riserH(cfg), R(CmPerM)), 1)]

stepTreadLine(cfg, points) ==
    LET sampleStep == points[sampleStepIdx(points)]
        y == Q(RAdd(sampleStep.startY, Norm(3, 20)))
    IN  [start |-> P3(Q(sampleStep.startX), y, stairW(cfg)),
         end |-> P3(Q(RAdd(sampleStep.startX, treadD(cfg))), y, stairW(cfg)),
         label |-> R(cfg.stepDepth)]

landingLine_TreadDepth(cfg, points, i) ==
    LET l == cfg.landings[i]
    IN  IF l.stepIndex \notin DOMAIN points THEN <<>>
        ELSE LET pt == points[l.stepIndex]
                 y == Q(RAdd(RAdd(pt.startY, Norm(3, 20)), RMul(R(i - 1), Norm(1, 10))))
             IN  <<[start |-> P3(Q(pt.startX), y, stairW(cfg)),
                    end |-> P3(Q(RAdd(pt.startX, treadD(cfg))), y, stairW(cfg)),
                    label |-> R(l.depth)]>>

\* landings.map((l, i) => ...): null, here <<>>, when
\* dimensionPoints[l.stepIndex - 1] is undefined, else <<line>>; i is the
\* 0-based position in the list
landingLine(cfg, points, i) ==
    LET l == cfg.landings[i]
    IN  IF l.stepIndex \notin DOMAIN points THEN <<>>
        ELSE LET pt == points[l.stepIndex]
                 y == Q(RAdd(RAdd(pt.startY, Norm(3, 20)), RMul(R(i - 1), Norm(1, 10))))
             IN  <<[start |-> P3(Q(pt.startX), y, stairW(cfg)),
                    end |-> P3(Q(RAdd(pt.startX, RDiv(R(l.depth), R(CmPerM)))), y,
                               stairW(cfg)),
                    label |-> R(l.depth)]>>

RECURSIVE landingLines(_, _, _)
\* ... .filter(x => x !== null)
landingLines(cfg, points, i) ==
    IF i > Len(cfg.landings) THEN <<>>
    ELSE landingLine(cfg, points, i) \o landingLines(cfg, points, i + 1)

\* dimensionPoints.filter(p => !p.isLanding)
firstFlightSteps(points) == SelectSeq(points, LAMBDA p : ~p.isLanding)

\* null, here <<>>, or <<line>>.  Math.sin(angle) = m / sec and
\* Math.cos(angle) = 1 / sec, with 1 / sec = sec / sec^2
thicknessLine(cfg, points) ==
    LET steps == firstFlightSteps(points)
    IN  IF Len(steps) = 0 THEN <<>>
        ELSE LET midIdx == Len(steps) \div 2
                 midStep == steps[midIdx + 1]
                 midYPitch == RAdd(RSub(midStep.startY, riserH(cfg)),
                                   RMul(RDiv(treadD(cfg), R(2)), Slope(cfg)))
                 midYSoffit == QSub(Q(midYPitch), verticalOffset(cfg))
                 mX == RAdd(midStep.startX, RDiv(treadD(cfg), R(2)))
                 cosT == [a |-> R(0), b |-> RDiv(thickness(cfg), Sec2(cfg))]
                 sinT == QScale(cosT, Slope(cfg))
                 z == RAdd(stairW(cfg), Norm(1, 20))
             IN  <<[start |-> P3(Q(mX), midYSoffit, z),
                    end |-> P3(QSub(Q(mX), sinT), QAdd(midYSoffit, cosT), z),
                    label |-> R(cfg.slabThickness)]>>

Dims(cfg, run, rise, points) ==
    [heightLine |-> heightLine(cfg, run, rise),
     runLine |-> runLine(cfg, run),
     widthLine |-> widthLine(cfg),
     stepRiserLine |-> stepRiserLine(cfg, points),
     stepTreadLine |-> stepTreadLine(cfg, points),
     thicknessLine |-> thicknessLine(cfg, points),
     landingLines |-> landingLines(cfg, points, 1)]

\* the DimensionLine elements of the overlay, each with the name of the
\* line it draws
Drawn(d) ==
    <<[name |-> "heightLine", line |-> d.heightLine],
      [name |-> "runLine", line |-> d.runLine],
      [name |-> "widthLine", line |-> d.widthLine],
      [name |-> "stepRiserLine", line |-> d.stepRiserLine],
      [name |-> "stepTreadLine", line |-> d.stepTreadLine]>>
        \o [k \in DOMAIN d.thicknessLine |->
               [name |-> "thicknessLine", line |-> d.thicknessLine[k]]]
        \o [k \in DOMAIN d.landingLines |->
               [name |-> "landingLine", line |-> d.landingLines[k]]]

----------------------------------------------------------------------------
(* StairModel, the earlier version with one landing, kept in the same file:
   config has landingStep (0 = none) and landingDepth instead of landings *)

landingD(old) == RDiv(R(old.landingDepth), R(CmPerM))

RECURSIVE OldTopProfileLoop(_, _, _)
OldTopProfileLoop(old, i, acc) ==
    IF i > old.numSteps THEN acc
    ELSE LET y == RAdd(acc.currentY, riserH(old))
             run == IF i = old.landingStep THEN landingD(old) ELSE treadD(old)
             x == RAdd(acc.currentX, run)
         IN  OldTopProfileLoop(old, i + 1,
                 [currentX |-> x,
                  currentY |-> y,
                  shape |-> acc.shape \o <<Pt(Q(acc.currentX), Q(y)), Pt(Q(x), Q(y))>>])

OldTopProfile(old) ==
    OldTopProfileLoop(old, 1, [currentX |-> R(0), currentY |-> R(0), shape |-> <<Origin>>])

\* (landingSoffitY + verticalOffset) / m
xIntersect1(old) ==
    LET landingSurfaceY == RMul(R(old.landingStep), riserH(old))
        landingSoffitY == RSub(landingSurfaceY, thickness(old))
    IN  QDivR(QAdd(Q(landingSoffitY), verticalOffset(old)), Slope(old))

\* Math.max(0, verticalOffset / m)
xBottomStart(old) == QMax0(QDivR(verticalOffset(old), Slope(old)), Sec2(old))

\* the points of the bottom profile, run being calculatedTotalRun
OldSoffit(old, run) ==
    IF old.landingStep > 0 /\ old.landingStep <= old.numSteps
    THEN LET landingSoffitY ==
                 Q(RSub(RMul(R(old.landingStep), riserH(old)), thickness(old)))
         IN  IF old.landingStep = old.numSteps
             THEN <<Pt(Q(run), landingSoffitY),
                    Pt(xIntersect1(old), landingSoffitY),
                    Pt(xBottomStart(old), QZero)>>
             ELSE LET shift == RSub(landingD(old), treadD(old))
                      xIntersect2 == QAdd(xIntersect1(old), Q(shift))
                      topSoffitY == QSub(Q(RMul(Slope(old), RSub(run, shift))),
                                         verticalOffset(old))
                  IN  <<Pt(Q(run), QMax0(topSoffitY, Sec2(old))),
                        Pt(xIntersect2, landingSoffitY),
                        Pt(xIntersect1(old), landingSoffitY),
                        Pt(xBottomStart(old), QZero)>>
    ELSE LET topSoffitY == QSub(Q(RMul(Slope(old), run)), verticalOffset(old))
         IN  <<Pt(Q(run), QMax0(topSoffitY, Sec2(old))), Pt(xBottomStart(old), QZero)>>

\* the whole path: top profile, bottom profile, shape.lineTo(0, 0)
OldShape(old) ==
    LET top == OldTopProfile(old)
    IN  top.shape \o OldSoffit(old, top.currentX) \o <<Origin>>

----------------------------------------------------------------------------
(* App: the configuration and its handlers *)

DEFAULT_CONFIG ==
    [totalHeight |-> 270, width |-> 90, numSteps |-> 14, stepDepth |-> 30,
     slabThickness |-> 20, landings |-> <<>>]

NewLandingDepth == 90

\* bounds of the exploration
MaxLandings == 2
MaxSteps == 4

\* values typed into the number inputs and sliders
InputVals ==
    [totalHeight |-> {270, 300},
     width |-> {90},
     numSteps |-> {1, 3, 14},
     stepDepth |-> {30},
     slabThickness |-> {20}]
\* the number standing for NaN: parseInt(e.target.value) of an emptied field
NaN == -1000000

StepIndexVals == {0, 2, NaN}
LandingDepthVals == {60}

\* (a, b) => a.stepIndex - b.stepIndex; sort takes a NaN result as +0
CompareSteps(a, b) ==
    IF a.stepIndex = NaN \/ b.stepIndex = NaN THEN 0 ELSE a.stepIndex - b.stepIndex

\* Array.prototype.sort with a consistent comparator: stable
RECURSIVE InsertSorted(_, _)
InsertSorted(l, sorted) ==
    IF sorted = <<>> THEN <<l>>
    ELSE IF CompareSteps(sorted[Len(sorted)], l) <= 0 THEN Append(sorted, l)
    ELSE Append(InsertSorted(l, SubSeq(sorted, 1, Len(sorted) - 1)), sorted[Len(sorted)])

RECURSIVE SortByStep(_)
SortByStep(ls) ==
    IF ls = <<>> THEN <<>>
    ELSE InsertSorted(ls[Len(ls)], SortByStep(SubSeq(ls, 1, Len(ls) - 1)))

\* the comparator is consistent on ls unless a NaN, equal to everything,
\* stands beside two different numbers
ConsistentComparator(ls) ==
    \/ \A k \in DOMAIN ls : ls[k].stepIndex # NaN
    \/ \A j, k \in DOMAIN ls :
           (ls[j].stepIndex # NaN /\ ls[k].stepIndex # NaN)
               => ls[j].stepIndex = ls[k].stepIndex

Reorderings(ls) ==
    {[k \in DOMAIN ls |-> ls[f[k]]] :
        f \in {g \in [DOMAIN ls -> DOMAIN ls] : \A i, j \in DOMAIN ls : g[i] = g[j] => i = j}}

\* the lists sort may leave: the stable order, or, the comparator being
\* inconsistent, an order the implementation defines
SortOutcomes(ls) ==
    IF ConsistentComparator(ls) THEN {SortByStep(ls)} ELSE Reorderings(ls)

UsedSteps(ls) == {ls[k].stepIndex : k \in DOMAIN ls}

\* while (usedSteps.has(nextStep) && nextStep > 1) nextStep--
RECURSIVE FindBackwards(_, _)
FindBackwards(used, nextStep) ==
    IF nextStep \in used /\ nextStep > 1 THEN FindBackwards(used, nextStep - 1)
    ELSE nextStep

NextFreeStep(prev) ==
    LET used == UsedSteps(prev.landings)
        middle == prev.numSteps \div 2
    IN  IF middle \in used THEN FindBackwards(used, prev.numSteps) ELSE middle

\* generateId(): a random string, taken to differ from the ids in use
FreshId(ls) ==
    CHOOSE id \in 1 .. Len(ls) + 1 : \A k \in DOMAIN ls : ls[k].id # id

AddedLandings(prev) ==
    LET newLanding == [id |-> FreshId(prev.landings), stepIndex |-> NextFreeStep(prev),
                       depth |-> NewLandingDepth]
    IN  SortOutcomes(Append(prev.landings, newLanding))

\* value < 1 and value > prev.numSteps are both false of NaN
ClampStep(value, numSteps) ==
    IF value = NaN THEN NaN
    ELSE IF value < 1 THEN 1 ELSE IF value > numSteps THEN numSteps ELSE value

UpdatedLanding(l, field, value, numSteps) ==
    IF field = "stepIndex" THEN [l EXCEPT !.stepIndex = ClampStep(value, numSteps)]
    ELSE [l EXCEPT ![field] = value]

UpdatedLandings(prev, id, field, value) ==
    LET mapped == [k \in DOMAIN prev.landings |->
                      IF prev.landings[k].id = id
                      THEN UpdatedLanding(prev.landings[k], field, value, prev.numSteps)
                      ELSE prev.landings[k]]
    IN  IF field = "stepIndex" THEN SortOutcomes(mapped) ELSE {mapped}

RemovedLandings(ls, id) == SelectSeq(ls, LAMBDA l : l.id # id)

(* App: the statistics panel *)

AppLandingMap_FirstWins(landings) ==
    [s \in UsedSteps(landings) |->
        landings[CHOOSE k \in DOMAIN landings :
                     /\ landings[k].stepIndex = s
                     /\ \A j \in DOMAIN landings : landings[j].stepIndex = s => k <= j].depth]

\* new Map(config.landings.map(l => [l.stepIndex, l.depth])), in cm: of two
\* entries with one key the later one stays
AppLandingMap(landings) ==
    [s \in UsedSteps(landings) |->
        landings[CHOOSE k \in DOMAIN landings :
                     /\ landings[k].stepIndex = s
                     /\ \A j \in DOMAIN landings : landings[j].stepIndex = s => j <= k].depth]

\* for (let i = 1; i <= config.numSteps; i++) calculatedRun += ...
RECURSIVE calculatedRunLoop(_, _, _)
calculatedRunLoop(cfg, lmap, i) ==
    IF i > cfg.numSteps THEN 0
    ELSE (IF i \in DOMAIN lmap THEN lmap[i] ELSE cfg.stepDepth)
             + calculatedRunLoop(cfg, lmap, i + 1)

calculatedRun(cfg) == calculatedRunLoop(cfg, AppLandingMap(cfg.landings), 1)

(* StairModel as App renders it: the useMemo cells.  A cell is <<>> before
   the first render, then <<[deps, value]>>.  The value of the geometry and
   dims cells is held as what their callback read, the polygon and lines
   being SpecGeom's function of it. *)

NoMemo == [landingMap |-> <<>>, geometry |-> <<>>, dims |-> <<>>]

\* the dependencies compared by value; the dependencies riserH, treadD,
\* stairW, thickness are computed from these at each render and are the
\* same exactly when these are
ScalarDeps(cfg) ==
    [totalHeight |-> cfg.totalHeight, width |-> cfg.width, numSteps |-> cfg.numSteps,
     stepDepth |-> cfg.stepDepth, slabThickness |-> cfg.slabThickness]

\* useMemo: the cached value is kept when every dependency is the same
\* (Object.is): sameRefs for the arrays, the Map and the objects among them
MemoHit(cell, deps, sameRefs) == cell # <<>> /\ sameRefs /\ cell[1].deps = deps

\* [landings]
LandingMapSameRefs(sameLandings) == sameLandings

GeometrySameRefs_Ignored(sameLandings, sameMap) == TRUE

\* [..., landings, ..., landingMap]
GeometrySameRefs(sameLandings, sameMap) == sameLandings /\ sameMap

\* [..., totalRun, totalRise, ..., landings, dimensionPoints]: totalRun,
\* totalRise and dimensionPoints are what the geometry cell returned
DimsSameRefs(sameLandings, sameGeometry) == sameLandings /\ sameGeometry

\* what the geometry callback reads: the scalars and the memoised landingMap
GeometryValue(cfg, lmap) == [scalars |-> ScalarDeps(cfg), landingMap |-> lmap]

\* what the dims callback reads: the scalars, landings and the geometry
\* cell's totalRun, totalRise, dimensionPoints
DimsValue(cfg, geometry) ==
    [scalars |-> ScalarDeps(cfg), landings |-> cfg.landings, geometry |-> geometry]

\* one render of StairModel on cfg, from the cells m to the cells out;
\* sameLandings: cfg.landings is the array of the render before
Render(m, cfg, sameLandings, out) ==
    \E deps \in {ScalarDeps(cfg)} :
    \E mapHit \in {MemoHit(m.landingMap, <<>>, LandingMapSameRefs(sameLandings))} :
    \E mapCell \in {IF mapHit THEN m.landingMap[1]
                    ELSE [deps |-> <<>>, value |-> landingMap(cfg.landings)]} :
    \E geoHit \in {MemoHit(m.geometry, deps, GeometrySameRefs(sameLandings, mapHit))} :
    \E geoCell \in {IF geoHit THEN m.geometry[1]
                    ELSE [deps |-> deps, value |-> GeometryValue(cfg, mapCell.value)]} :
    \E dimsHit \in {MemoHit(m.dims, deps, DimsSameRefs(sameLandings, geoHit))} :
    \E dimsCell \in {IF dimsHit THEN m.dims[1]
                     ELSE [deps |-> deps, value |-> DimsValue(cfg, geoCell.value)]} :
        out = [landingMap |-> <<mapCell>>, geometry |-> <<geoCell>>, dims |-> <<dimsCell>>]

\* React renders App and StairModel again after a handler's setConfig
Rerendered(cfg, sameLandings) == Render(memo, cfg, sameLandings, memo')

geomVars == <<pc, shape, stepCoords, scan, totalRun, totalRise, dims, lastRun, oldRun>>

\* nothing computed yet
NoGeometry ==
    /\ pc = "start"
    /\ shape = <<>>
    /\ stepCoords = <<>>
    /\ scan = [segments |-> <<>>, currentSegType |-> "null", segStartStep |-> 1,
               segStartX |-> R(0), segStartY |-> R(0)]
    /\ totalRun = R(0)
    /\ totalRise = R(0)
    /\ dims = <<>>
    /\ lastRun = <<>>
    /\ oldRun = <<>>

\* the first render
Init ==
    /\ config = DEFAULT_CONFIG
    /\ Render(NoMemo, DEFAULT_CONFIG, FALSE, memo)
    /\ NoGeometry

HandleInputChange ==
    /\ \E key \in DOMAIN InputVals : \E value \in InputVals[key] :
          config' = [config EXCEPT ![key] = value]     \* { ...prev }: same landings
    /\ Rerendered(config', TRUE)
    /\ UNCHANGED geomVars

AddLanding ==
    /\ Len(config.landings) < config.numSteps      \* the button is disabled otherwise
    /\ Len(config.landings) < MaxLandings
    /\ \E newLandings \in AddedLandings(config) :
          config' = [config EXCEPT !.landings = newLandings]
    /\ Rerendered(config', FALSE)
    /\ UNCHANGED geomVars

UpdateLanding ==
    /\ \E k \in DOMAIN config.landings : \E field \in {"stepIndex", "depth"} :
          \E value \in (IF field = "stepIndex" THEN StepIndexVals ELSE LandingDepthVals) :
              \E newLandings \in UpdatedLandings(config, config.landings[k].id, field, value) :
                  config' = [config EXCEPT !.landings = newLandings]
    /\ Rerendered(config', FALSE)
    /\ UNCHANGED geomVars

RemoveLanding ==
    /\ \E k \in DOMAIN config.landings :
          config' = [config EXCEPT !.landings = RemovedLandings(@, config.landings[k].id)]
    /\ Rerendered(config', FALSE)
    /\ UNCHANGED geomVars

Next ==
    \/ HandleInputChange
    \/ AddLanding
    \/ UpdateLanding
    \/ RemoveLanding

\* App: the edits of the configuration, from DEFAULT_CONFIG
Spec == Init /\ [][Next]_vars

----------------------------------------------------------------------------
(* StairModel: the geometry callback, step by step, on one config *)

HeightVals == {60}
TreadVals == {25, 50}
SlabVals == {0, 20, 100}
DepthVals == {25, 100}

\* landing lists as App keeps them: ordered by stepIndex; they may repeat a
\* stepIndex or leave 1..numSteps (stepIndex 0 and numSteps + 1)
RECURSIVE LandingLists(_, _, _)
LandingLists(n, lo, hi) ==
    IF n = 0 THEN {<<>>}
    ELSE {<<>>} \cup
         UNION {{<<[id |-> MaxLandings + 1 - n, stepIndex |-> s, depth |-> d]>> \o rest :
                    rest \in LandingLists(n - 1, s, hi) \ {<<>>}} \cup
                {<<[id |-> MaxLandings + 1 - n, stepIndex |-> s, depth |-> d]>>} :
                <<s, d>> \in (lo .. hi) \X DepthVals}

InitGeom ==
    /\ \E n \in 1 .. MaxSteps :
          config \in [totalHeight : HeightVals, width : {90}, numSteps : {n},
                      stepDepth : TreadVals, slabThickness : SlabVals,
                      landings : LandingLists(MaxLandings, 0, n + 1)]
    /\ memo = NoMemo
    /\ NoGeometry

BuildTopProfile ==
    /\ pc = "start"
    /\ \E top \in {TopProfile(config)} :
          /\ shape' = top.shape
          /\ stepCoords' = top.stepCoords
          /\ totalRun' = top.currentX
          /\ totalRise' = top.currentY
    /\ pc' = "top"
    /\ UNCHANGED <<config, scan, dims, lastRun, oldRun, memo>>

BuildSegments ==
    /\ pc = "top"
    /\ scan' = IdentifySegments(stepCoords, config.numSteps, totalRun, totalRise)
    /\ pc' = "segments"
    /\ UNCHANGED <<config, shape, stepCoords, totalRun, totalRise, dims, lastRun, oldRun,
                   memo>>

BuildSoffit ==
    /\ pc = "segments"
    /\ shape' = shape \o Soffit(scan, config)
    /\ pc' = "done"
    /\ UNCHANGED <<config, stepCoords, scan, totalRun, totalRise, dims, lastRun, oldRun,
                   memo>>

BuildDims ==
    /\ pc = "done"
    /\ dims' = <<Dims(config, totalRun, totalRise, stepCoords)>>
    /\ pc' = "dims"
    /\ UNCHANGED <<config, shape, stepCoords, scan, totalRun, totalRise, lastRun, oldRun,
                   memo>>

\* generateId() of App gives each landing a random string: the same list
\* under other ids
Renamed(landings, shift) ==
    [k \in DOMAIN landings |-> [landings[k] EXCEPT !.id = @ + shift]]

\* StairModel runs again, both callbacks from start to end, on an equal
\* config; the values of the first run are still in place
Rerender ==
    /\ pc = "dims"
    /\ lastRun = <<>>
    /\ \E cfg \in {[config EXCEPT !.landings = Renamed(@, MaxLandings)]} :
       \E top \in {TopProfile(cfg)} :
       \E sv \in {IdentifySegments(top.stepCoords, cfg.numSteps, top.currentX,
                                   top.currentY)} :
          lastRun' = <<[shape |-> top.shape \o Soffit(sv, cfg),
                        dims |-> <<Dims(cfg, top.currentX, top.currentY, top.stepCoords)>>]>>
    /\ UNCHANGED <<config, pc, shape, stepCoords, scan, totalRun, totalRise, dims, oldRun,
                   memo>>

\* a config of at most one landing as the earlier version has it
OldConfig(cfg) ==
    [totalHeight |-> cfg.totalHeight, width |-> cfg.width, numSteps |-> cfg.numSteps,
     stepDepth |-> cfg.stepDepth, slabThickness |-> cfg.slabThickness,
     landingStep |-> IF cfg.landings = <<>> THEN 0 ELSE cfg.landings[1].stepIndex,
     landingDepth |-> IF cfg.landings = <<>> THEN 0 ELSE cfg.landings[1].depth]

\* the earlier StairModel computes its polygon for the same stair
RenderOld ==
    /\ pc = "dims"
    /\ oldRun = <<>>
    /\ Len(config.landings) <= 1
    /\ oldRun' = <<OldShape(OldConfig(config))>>
    /\ UNCHANGED <<config, pc, shape, stepCoords, scan, totalRun, totalRise, dims, lastRun,
                   memo>>

NextGeom ==
    \/ BuildTopProfile
    \/ BuildSegments
    \/ BuildSoffit
    \/ BuildDims
    \/ Rerender
    \/ RenderOld

SpecGeom == InitGeom /\ [][NextGeom]_vars

----------------------------------------------------------------------------
(* The StaircaseSpec contract and what is checked of the geometry *)

UniqueSteps(ls) == \A j, k \in DOMAIN ls : ls[j].stepIndex = ls[k].stepIndex => j = k

StepsInRange(cfg) == \A k \in DOMAIN cfg.landings : cfg.landings[k].stepIndex \in 1 .. cfg.numSteps

ValidSpec(cfg) ==
    /\ cfg.numSteps >= 1
    /\ cfg.totalHeight > 0
    /\ cfg.width > 0
    /\ cfg.stepDepth > 0
    /\ cfg.slabThickness >= 0
    /\ \A k \in DOMAIN cfg.landings : cfg.landings[k].depth > 0
    /\ UniqueSteps(cfg.landings)
    /\ StepsInRange(cfg)

Done == pc = "done"

SameQ(p, q) == QEq(p, q, Sec2(config))
SamePt(p, q) == SameQ(p.x, q.x) /\ SameQ(p.y, q.y)
NonNegative(q) == QSign(q, Sec2(config)) >= 0

FirstSeg == scan.segments[1]
LastSeg == scan.segments[Len(scan.segments)]
\* number of points of the top chain, the moveTo included
TopLen == 2 * config.numSteps + 1

\* C1: for a valid spec every vertex of the finished polygon has Y >= 0
C1_AllYNonNegative ==
    (Done /\ ValidSpec(config)) => \A k \in DOMAIN shape : NonNegative(shape[k].y)

\* C2: for a valid spec the finished polygon starts and ends at (0,0)
C2_Closed ==
    (Done /\ ValidSpec(config)) =>
        /\ SamePt(shape[1], Origin)
        /\ SamePt(shape[Len(shape)], Origin)

\* both floor-terminus branches are taken; here the landing one, with a
\* soffit level that is not the floor's
C2_Witness ==
    /\ Done
    /\ ValidSpec(config)
    /\ FirstSeg.type = "landing"
    /\ Len(scan.segments) >= 2
    /\ ~SameQ(shape[Len(shape) - 3].y, QZero)
    /\ SamePt(shape[Len(shape)], Origin)

\* C3: an invalid spec is rejected before any geometry is built
C3_InvalidSpecRejected ==
    ~ValidSpec(config) => (shape = <<>> /\ stepCoords = <<>> /\ scan.segments = <<>>)

\* C4: the config handed to Staircase3D keeps the landings' step indices
\* unique and within 1..numSteps
C4_LandingsUniqueInRange == UniqueSteps(config.landings) /\ StepsInRange(config)

(* Simple polygons.  The vertices are the points of the path with repeated
   consecutive points dropped, taken cyclically. *)

RECURSIVE Dedupe(_)
Dedupe(pts) ==
    IF Len(pts) <= 1 THEN pts
    ELSE LET rest == Dedupe(SubSeq(pts, 1, Len(pts) - 1))
         IN  IF SamePt(rest[Len(rest)], pts[Len(pts)]) THEN rest ELSE Append(rest, pts[Len(pts)])

\* the cycle of vertices: the closing point repeats the first one
Vertices(pts) ==
    LET d == Dedupe(pts)
    IN  IF Len(d) >= 2 /\ SamePt(d[1], d[Len(d)]) THEN SubSeq(d, 1, Len(d) - 1) ELSE d

\* sign of the cross product (b - a) x (c - a)
Orient(a, b, c) ==
    QSign(QSub(QMul(QSub(b.x, a.x), QSub(c.y, a.y), Sec2(config)),
               QMul(QSub(b.y, a.y), QSub(c.x, a.x), Sec2(config))),
          Sec2(config))

Between(u, v, w) ==
    \/ QLeq(u, w, Sec2(config)) /\ QLeq(w, v, Sec2(config))
    \/ QLeq(v, w, Sec2(config)) /\ QLeq(w, u, Sec2(config))

\* c lies on the closed segment ab
OnSegment(a, b, c) == Orient(a, b, c) = 0 /\ Between(a.x, b.x, c.x) /\ Between(a.y, b.y, c.y)

\* the closed segments ab and cd share a point
SegmentsMeet(a, b, c, d) ==
    \/ /\ Orient(a, b, c) * Orient(a, b, d) < 0
       /\ Orient(c, d, a) * Orient(c, d, b) < 0
    \/ OnSegment(a, b, c)
    \/ OnSegment(a, b, d)
    \/ OnSegment(c, d, a)
    \/ OnSegment(c, d, b)

SimplePolygon(pts) ==
    LET v == Vertices(pts)
        m == Len(v)
        nxt(k) == IF k = m THEN 1 ELSE k + 1
    IN  \A j, k \in 1 .. m :
            (j < k /\ k - j > 1 /\ k - j < m - 1) =>
                ~SegmentsMeet(v[j], v[nxt(j)], v[k], v[nxt(k)])

\* C5: for a valid spec no two non-adjacent edges of the finished polygon
\* intersect or overlap
C5_Simple == (Done /\ ValidSpec(config)) => SimplePolygon(shape)

(* The soffit chain *)

\* the points appended after the top chain: top terminus, junctions, floor
\* terminus, closing points
SoffitChain == SubSeq(shape, TopLen + 1, Len(shape))

\* top terminus, junctions and the first point of the floor terminus
SoffitProper == SubSeq(shape, TopLen + 1, TopLen + Len(scan.segments) + 1)

\* an edge of zero slope: it has a direction and it is horizontal
FlatEdge(p, q) == SameQ(p.y, q.y) /\ ~SameQ(p.x, q.x)

FlatEdges(pts) == Cardinality({k \in 1 .. Len(pts) - 1 : FlatEdge(pts[k], pts[k + 1])})

LandingSegments == {k \in DOMAIN scan.segments : scan.segments[k].type = "landing"}

SoffitUnclamped ==
    /\ NonNegative(getSoffitY(LastSeg.endX, LastSeg, scan, config))
    /\ \A k \in LandingSegments :
           RSign(RSub(scan.segments[k].startY, thickness(config))) > 0

SoffitVerticesDistinct ==
    \A k \in 1 .. Len(SoffitProper) - 1 : ~SamePt(SoffitProper[k], SoffitProper[k + 1])

InMetres(cm) == RDiv(R(cm), R(CmPerM))

TopBuilt == pc \in {"top", "segments", "done"}

\* C7: without landings the top chain ends at
\* (numSteps x stepDepth, totalHeight), taken in metres
C7_TopChainEnd ==
    (TopBuilt /\ ValidSpec(config) /\ config.landings = <<>>) =>
        /\ Len(shape) >= TopLen
        /\ SamePt(shape[TopLen],
                  Pt(Q(InMetres(config.numSteps * config.stepDepth)),
                     Q(InMetres(config.totalHeight))))

C7_Witness ==
    /\ pc = "top"
    /\ ValidSpec(config)
    /\ config.landings = <<>>
    /\ config.numSteps >= 3
    /\ Len(shape) = TopLen
    /\ shape[TopLen].x.a = InMetres(config.numSteps * config.stepDepth)

(* The segments *)

SegmentsBuilt == pc \in {"segments", "done"}

\* C8: the segments partition 1..numSteps in order, each of one kind, and
\* neighbours are of opposite kinds
C8_Partition ==
    (SegmentsBuilt /\ ValidSpec(config)) =>
        LET segs == scan.segments
        IN  /\ Len(segs) >= 1
            /\ segs[1].startStep = 1
            /\ segs[Len(segs)].endStep = config.numSteps
            /\ \A k \in DOMAIN segs :
                   /\ segs[k].startStep <= segs[k].endStep
                   /\ \A i \in segs[k].startStep .. segs[k].endStep :
                          /\ i \in DOMAIN stepCoords
                          /\ SegType(stepCoords[i]) = segs[k].type
            /\ \A k \in 1 .. Len(segs) - 1 :
                   /\ segs[k + 1].startStep = segs[k].endStep + 1
                   /\ segs[k + 1].type # segs[k].type

C8_Witness ==
    /\ SegmentsBuilt
    /\ ValidSpec(config)
    /\ Len(scan.segments) >= 3
    /\ scan.segments[2].endStep > scan.segments[2].startStep

(* Junction vertices *)

\* points the floor terminus appends before the closing point
FloorLen == IF FirstSeg.type = "landing" THEN 3 ELSE 1

\* the points between the top terminus and the floor terminus
JunctionCount == Len(shape) - TopLen - 1 - FloorLen - 1

SegTypes == [k \in DOMAIN scan.segments |-> scan.segments[k].type]

\* C9: one junction vertex per pair of adjacent segments; two for a single
\* interior landing, one when the only landing is the last step
C9_JunctionCount ==
    (Done /\ ValidSpec(config)) =>
        /\ JunctionCount = Len(scan.segments) - 1
        /\ (/\ Len(config.landings) = 1
            /\ config.landings[1].stepIndex > 1
            /\ config.landings[1].stepIndex < config.numSteps)
              => (SegTypes = <<"flight", "landing", "flight">> /\ JunctionCount = 2)
        /\ (/\ Len(config.landings) = 1
            /\ config.numSteps > 1
            /\ config.landings[1].stepIndex = config.numSteps)
              => (SegTypes = <<"flight", "landing">> /\ JunctionCount = 1)

C9_Witness ==
    /\ Done
    /\ ValidSpec(config)
    /\ Len(config.landings) = 1
    /\ config.landings[1].stepIndex = config.numSteps
    /\ SegTypes = <<"flight", "landing">>
    /\ JunctionCount = 1

(* Step coordinates *)

RECURSIVE SumDepths(_, _)
SumDepths(sc, n) == IF n = 0 THEN R(0) ELSE RAdd(SumDepths(sc, n - 1), sc[n].depth)

LandingsAt(i) == {k \in DOMAIN config.landings : config.landings[k].stepIndex = i}

\* C10: each step's run is its landing's depth or stepDepth, the steps
\* follow one another in X, each climbs one riser, and totalRun is the sum
\* of the runs
C10_StepCoords ==
    (TopBuilt /\ ValidSpec(config)) =>
        /\ Len(stepCoords) = config.numSteps
        /\ \A i \in 1 .. config.numSteps :
               /\ stepCoords[i].stepIdx = i
               /\ \A k \in LandingsAt(i) :
                      stepCoords[i].depth = InMetres(config.landings[k].depth)
               /\ LandingsAt(i) = {} => stepCoords[i].depth = InMetres(config.stepDepth)
               /\ stepCoords[i].startX =
                      (IF i = 1 THEN R(0)
                       ELSE RAdd(stepCoords[i - 1].startX, stepCoords[i - 1].depth))
               /\ RSub(stepCoords[i].startY,
                       IF i = 1 THEN R(0) ELSE stepCoords[i - 1].startY)
                      = RDiv(InMetres(config.totalHeight), R(config.numSteps))
        /\ totalRun = SumDepths(stepCoords, config.numSteps)

C10_Witness ==
    /\ TopBuilt
    /\ ValidSpec(config)
    /\ config.numSteps >= 3
    /\ \E i \in 2 .. config.numSteps :
           /\ LandingsAt(i) # {}
           /\ LandingsAt(i - 1) = {}
           /\ stepCoords[i].depth # InMetres(config.stepDepth)
           /\ stepCoords[i].startX = RAdd(stepCoords[i - 1].startX, InMetres(config.stepDepth))

(* Two runs on equal configs *)

SecondRun == lastRun # <<>>

\* the annotation lines, once computed
Lines == dims[1]

C12_MemoFresh ==
    LET lmap == landingMap(config.landings)
        geometry == GeometryValue(config, lmap)
    IN  /\ memo.landingMap # <<>> /\ memo.landingMap[1].value = lmap
        /\ memo.geometry # <<>> /\ memo.geometry[1].value = geometry
        /\ memo.dims # <<>> /\ memo.dims[1].value = DimsValue(config, geometry)

\* after edits of the landings and of the scalars
C12_Witness ==
    /\ Len(config.landings) = 2
    /\ config.numSteps # DEFAULT_CONFIG.numSteps
    /\ config.totalHeight # DEFAULT_CONFIG.totalHeight
    /\ DOMAIN memo.landingMap[1].value = UsedSteps(config.landings)
    /\ memo.geometry[1].value.scalars.numSteps = config.numSteps
    /\ memo.dims[1].value.landings = config.landings

(* The order of the landings *)

\* a <= b of two JavaScript numbers
LeqNumber(a, b) == a # NaN /\ b # NaN /\ a <= b

\* C13: config.landings is ordered by non-decreasing stepIndex
C13_LandingsSorted ==
    \A k \in 1 .. Len(config.landings) - 1 :
        LeqNumber(config.landings[k].stepIndex, config.landings[k + 1].stepIndex)

(* Junction vertices and the lines they lie on *)

\* the vertex appended for the pair segments[i - 1], segments[i]
JunctionAt(i) == shape[TopLen + 1 + (Len(scan.segments) - i + 1)]

\* y of the soffit line of the flight seg at x, from seg's own start
FlightLineY(x, seg) ==
    QSub(QAdd(QScale(QSub(x, Q(RAdd(seg.startX, treadD(config)))), Slope(config)),
              Q(seg.startY)),
         verticalOffset(config))

\* Y of the flat soffit of the landing seg
LandingLineY(seg) == Q(RSub(seg.startY, thickness(config)))

\* C14: each junction vertex is on the landing's flat line and on the
\* flight's sloped line, whichever of the two segments is the flight
C14_JunctionOnBothLines ==
    (Done /\ ValidSpec(config)) =>
        \A i \in 2 .. Len(scan.segments) :
            LET lower == scan.segments[i - 1]
                upper == scan.segments[i]
                landing == IF upper.type = "landing" THEN upper ELSE lower
                flight == IF upper.type = "landing" THEN lower ELSE upper
            IN  /\ landing.type = "landing" /\ flight.type = "flight"
                /\ SameQ(JunctionAt(i).y, LandingLineY(landing))
                /\ SameQ(JunctionAt(i).y, FlightLineY(JunctionAt(i).x, flight))

C14_Witness ==
    /\ Done
    /\ ValidSpec(config)
    /\ SegTypes = <<"flight", "landing", "flight">>
    /\ config.slabThickness > 0
    /\ SameQ(JunctionAt(2).y, JunctionAt(3).y)
    /\ ~SameQ(JunctionAt(2).x, JunctionAt(3).x)
    /\ SameQ(JunctionAt(3).y, FlightLineY(JunctionAt(3).x, scan.segments[3]))

(* The two ends of the soffit *)

Max0(q) == QMax0(q, Sec2(config))

\* the points appended after the last junction, the closing point included
FloorPoints == SubSeq(shape, TopLen + 1 + Len(scan.segments), Len(shape))

\* C15: below a first landing the floor terminus appends
\* (0, max(0, startY - slabThickness)) and then (0, 0), and no point at
\* x = 0 with another Y
C15_LandingFloorTerminus ==
    (Done /\ ValidSpec(config) /\ FirstSeg.type = "landing") =>
        LET level == Max0(LandingLineY(FirstSeg))
        IN  /\ Len(FloorPoints) >= 2
            /\ SamePt(FloorPoints[1], Pt(QZero, level))
            /\ SamePt(FloorPoints[2], Origin)
            /\ \A k \in DOMAIN FloorPoints :
                   /\ SameQ(FloorPoints[k].x, QZero)
                   /\ SameQ(FloorPoints[k].y, level) \/ SameQ(FloorPoints[k].y, QZero)

\* C16: the first soffit vertex is (lastSeg.endX, max(0, y)), y the last
\* segment's own soffit line at endX; without landings y is
\* totalRise - slabThickness / cos(angle)
C16_TopTerminus ==
    (Done /\ ValidSpec(config)) =>
        LET y == IF LastSeg.type = "landing" THEN LandingLineY(LastSeg)
                 ELSE FlightLineY(Q(LastSeg.endX), LastSeg)
            plain == QSub(Q(InMetres(config.totalHeight)),
                          [a |-> R(0), b |-> InMetres(config.slabThickness)])
        IN  /\ SamePt(shape[TopLen + 1], Pt(Q(LastSeg.endX), Max0(y)))
            /\ (config.landings = <<>> /\ NonNegative(plain))
                   => SameQ(shape[TopLen + 1].y, plain)

\* a flight above a landing, its soffit above the floor at the top
C16_Witness ==
    /\ Done
    /\ ValidSpec(config)
    /\ SegTypes = <<"flight", "landing", "flight">>
    /\ config.slabThickness > 0
    /\ ~NonNegative(QSub(QZero, shape[TopLen + 1].y))
    /\ SameQ(shape[TopLen + 1].y, FlightLineY(Q(totalRun), LastSeg))

(* Landings and their soffit *)

\* the junction vertices at the two ends of segment k's soffit
JunctionsOf(k) ==
    {JunctionAt(i) : i \in {k, k + 1} \cap (2 .. Len(scan.segments))}

\* C17: the soffit under a landing step is level, slabThickness below the
\* step's own top surface, also in a landing segment of several steps
C17_LandingSoffitLevel ==
    (Done /\ ValidSpec(config)) =>
        \A k \in LandingSegments :
            \A i \in scan.segments[k].startStep .. scan.segments[k].endStep :
                \A j \in JunctionsOf(k) :
                    SameQ(j.y, Q(RSub(stepCoords[i].startY, thickness(config))))

\* C18: a closed segment ends one step before the split, at the split
\* step's recorded start, where the next segment starts; the last segment
\* ends at (totalRun, totalRise)
C18_SplitCoordinates ==
    (SegmentsBuilt /\ ValidSpec(config)) =>
        LET segs == scan.segments
        IN  /\ \A k \in 1 .. Len(segs) - 1 :
                   LET s == segs[k + 1].startStep
                   IN  /\ s \in DOMAIN stepCoords
                       /\ segs[k].endStep = s - 1
                       /\ segs[k].endX = stepCoords[s].startX
                       /\ segs[k].endY = stepCoords[s].startY
                       /\ segs[k + 1].startX = stepCoords[s].startX
                       /\ segs[k + 1].startY = stepCoords[s].startY
            /\ segs[Len(segs)].endX = totalRun
            /\ segs[Len(segs)].endY = totalRise

C18_Witness ==
    /\ SegmentsBuilt
    /\ ValidSpec(config)
    /\ Len(scan.segments) = 3
    /\ scan.segments[1].endStep = 2
    /\ scan.segments[1].endX = stepCoords[3].startX
    /\ scan.segments[3].endX = totalRun
    /\ scan.segments[3].startX # totalRun

(* The annotation lines *)

DimsBuilt == pc = "dims"

DrawnNamed(name) == SelectSeq(Drawn(Lines), LAMBDA e : e.name = name)

FlightSteps == {i \in DOMAIN stepCoords : ~stepCoords[i].isLanding}

\* the lowest maximal run of non-landing steps
FirstFlightSteps ==
    {i \in FlightSteps :
        \A j \in 1 .. i : j \in FlightSteps \/ \A h \in 1 .. j : h \notin FlightSteps}

\* the steps at the middle of whose tread the line starts
AnchorSteps(line) ==
    {i \in DOMAIN stepCoords :
        SameQ(line.start.x, Q(RAdd(stepCoords[i].startX, RDiv(treadD(config), R(2)))))}

\* C19: with a non-landing step there is exactly one slab-thickness
\* indicator, anchored to a step of the first flight
C19_ThicknessOnFirstFlight ==
    (DimsBuilt /\ ValidSpec(config) /\ FlightSteps # {}) =>
        /\ Len(DrawnNamed("thicknessLine")) = 1
        /\ \A k \in DOMAIN DrawnNamed("thicknessLine") :
               /\ AnchorSteps(DrawnNamed("thicknessLine")[k].line) # {}
               /\ AnchorSteps(DrawnNamed("thicknessLine")[k].line) \subseteq FirstFlightSteps

\* C20: when step 1 is a landing and no later step is a non-landing one,
\* no riser and no tread annotation is drawn
C20_SampleOmitted ==
    (DimsBuilt /\ ValidSpec(config) /\ FlightSteps = {}) =>
        /\ DrawnNamed("stepRiserLine") = <<>>
        /\ DrawnNamed("stepTreadLine") = <<>>

(* The representative step *)

\* the steps no landing is registered at, step 1 left aside
LaterFlightSteps == {i \in 2 .. config.numSteps : LandingsAt(i) = {}}

\* the lowest of them, or step 1 when there is none
RepresentativeStep ==
    IF LaterFlightSteps = {} THEN 1
    ELSE CHOOSE i \in LaterFlightSteps : \A j \in LaterFlightSteps : i <= j

\* the riser annotation stands 0.15 before the step's start and ends at its
\* top; the tread annotation starts at the step's start, 0.15 above it
AnchoredAt(i) ==
    /\ SameQ(Lines.stepRiserLine.end.x, Q(RSub(stepCoords[i].startX, Norm(3, 20))))
    /\ SameQ(Lines.stepRiserLine.end.y, Q(stepCoords[i].startY))
    /\ SameQ(Lines.stepTreadLine.start.x, Q(stepCoords[i].startX))
    /\ SameQ(Lines.stepTreadLine.start.y, Q(RAdd(stepCoords[i].startY, Norm(3, 20))))

\* C21: the riser and tread annotations are anchored at the lowest
\* non-landing step above step 1, at step 1 when there is none; the step is
\* one of 1..numSteps and has recorded coordinates
C21_SampleStep ==
    DimsBuilt =>
        /\ RepresentativeStep \in 1 .. config.numSteps
        /\ RepresentativeStep \in DOMAIN stepCoords
        /\ sampleStepIdx(stepCoords) = RepresentativeStep
        /\ AnchoredAt(RepresentativeStep)

\* step 1 is a flight step and step 2 a landing: the anchor is step 3
C21_Witness ==
    /\ DimsBuilt
    /\ ValidSpec(config)
    /\ LandingsAt(1) = {}
    /\ LandingsAt(2) # {}
    /\ RepresentativeStep = 3
    /\ AnchoredAt(3)
    /\ ~AnchoredAt(1)

(* The landings' depth labels *)

\* the point of the top chain at the end of step i's tread
TreadEnd(i) == shape[2 * i + 1]

\* C22: for a valid spec there is one depth-label line per landing, in the
\* order of the list, from the landing step's recorded startX to startX plus
\* the landing's depth, which is where the step's tread ends in the top chain
C22_LandingLines ==
    (DimsBuilt /\ ValidSpec(config)) =>
        /\ Len(Lines.landingLines) = Len(config.landings)
        /\ Len(DrawnNamed("landingLine")) = Len(config.landings)
        /\ \A k \in DOMAIN config.landings :
               LET l == config.landings[k]
                   line == DrawnNamed("landingLine")[k].line
               IN  /\ l.stepIndex \in DOMAIN stepCoords
                   /\ line.label = R(l.depth)
                   /\ SameQ(line.start.x, Q(stepCoords[l.stepIndex].startX))
                   /\ SameQ(line.end.x,
                            Q(RAdd(stepCoords[l.stepIndex].startX, InMetres(l.depth))))
                   /\ SameQ(line.end.x, TreadEnd(l.stepIndex).x)

\* two landings, the second one deeper than a tread and not on the floor
C22_Witness ==
    /\ DimsBuilt
    /\ ValidSpec(config)
    /\ Len(config.landings) = 2
    /\ Len(DrawnNamed("landingLine")) = 2
    /\ config.landings[2].depth > config.stepDepth
    /\ ~SameQ(DrawnNamed("landingLine")[2].line.start.x, QZero)
    /\ SameQ(DrawnNamed("landingLine")[2].line.end.x,
             TreadEnd(config.landings[2].stepIndex).x)

(* updateLanding *)

\* a < b of two JavaScript numbers
LessNumber(a, b) == a # NaN /\ b # NaN /\ a < b

\* 1 if v < 1, numSteps if v > numSteps, else v
Clamped(v, numSteps) ==
    IF LessNumber(v, 1) THEN 1 ELSE IF LessNumber(numSteps, v) THEN numSteps ELSE v

ScalarsUnchanged == \A key \in DOMAIN InputVals : config'[key] = config[key]

\* the landings after the call are those before it, the one with this id
\* replaced by changed
OnlyChanged(id, changed) ==
    /\ Len(config'.landings) = Len(config.landings)
    /\ \A j \in DOMAIN config.landings :
           \E h \in DOMAIN config'.landings :
               /\ config'.landings[h].id = config.landings[j].id
               /\ config'.landings[h] =
                      (IF config.landings[j].id = id THEN changed ELSE config.landings[j])

\* the step of config is updateLanding(id of the k-th landing, field, value)
UpdateLandingCalled(k, field, value) ==
    /\ UpdateLanding
    /\ config' \in {[config EXCEPT !.landings = ls] :
                       ls \in UpdatedLandings(config, config.landings[k].id, field, value)}

\* C23: updateLanding(id, 'stepIndex', v) gives the landing a stepIndex in
\* 1..numSteps, namely v clamped, updateLanding(id, 'depth', v) the depth v;
\* the other landings and the scalar fields are as before
C23_UpdateFrame ==
    [][\A k \in DOMAIN config.landings :
          LET l == config.landings[k]
          IN  /\ \A v \in StepIndexVals :
                     UpdateLandingCalled(k, "stepIndex", v) =>
                         /\ ScalarsUnchanged
                         /\ Clamped(v, config.numSteps) \in 1 .. config.numSteps
                         /\ OnlyChanged(l.id,
                                [l EXCEPT !.stepIndex = Clamped(v, config.numSteps)])
              /\ \A v \in LandingDepthVals :
                     UpdateLandingCalled(k, "depth", v) =>
                         /\ ScalarsUnchanged
                         /\ OnlyChanged(l.id, [l EXCEPT !.depth = v])]_vars

(* addLanding *)

\* the landings of the next config whose id no landing has now
NewLandings ==
    {config'.landings[h] : h \in {j \in DOMAIN config'.landings :
        \A k \in DOMAIN config.landings : config.landings[k].id # config'.landings[j].id}}

\* C25: addLanding on landings with unique step indices in 1..numSteps,
\* fewer than numSteps of them, adds one landing, at a step of 1..numSteps
\* that no landing uses
C25_AddLandingFreeStep ==
    [][(/\ AddLanding
        /\ UniqueSteps(config.landings)
        /\ StepsInRange(config)
        /\ Len(config.landings) < config.numSteps)
           => /\ Cardinality(NewLandings) = 1
              /\ \A l \in NewLandings :
                     /\ l.stepIndex \in 1 .. config.numSteps
                     /\ l.stepIndex \notin UsedSteps(config.landings)]_vars

(* The statistics panel and the model *)

\* calculatedTotalRun of the geometry callback on what the memo cells hold
RenderedTotalRun ==
    TopProfileLoop(memo.geometry[1].value.scalars, memo.geometry[1].value.landingMap, 1,
        [currentX |-> R(0), currentY |-> R(0), shape |-> <<Origin>>,
         stepCoords |-> <<>>]).currentX

\* C27: whatever the landings' step indices, the total run of the
\* statistics panel, in cm, is 100 times the total run of the 3D model
C27_SameTotalRun ==
    R(calculatedRun(config)) = RMul(R(CmPerM), RenderedTotalRun)

\* two landings at one step, of different depths, and the run counts the
\* later one's
C27_Witness ==
    /\ Len(config.landings) = 2
    /\ config.landings[1].stepIndex = config.landings[2].stepIndex
    /\ config.landings[1].stepIndex \in 1 .. config.numSteps
    /\ config.landings[1].depth # config.landings[2].depth
    /\ calculatedRun(config) =
           (config.numSteps - 1) * config.stepDepth + config.landings[2].depth
    /\ R(calculatedRun(config)) = RMul(R(CmPerM), RenderedTotalRun)

(* The soffit's X coordinates *)

LeqQ(p, q) == QLeq(p, q, Sec2(config))

\* C26: for a valid spec the X coordinates of the soffit vertices, from the
\* top terminus through the junctions to the floor terminus, never
\* increase and lie in [0, totalRun]
C26_SoffitXMonotone ==
    (Done /\ ValidSpec(config)) =>
        /\ \A k \in DOMAIN SoffitProper :
               LeqQ(QZero, SoffitProper[k].x) /\ LeqQ(SoffitProper[k].x, Q(totalRun))
        /\ \A k \in 1 .. Len(SoffitProper) - 1 :
               LeqQ(SoffitProper[k + 1].x, SoffitProper[k].x)

(* Totality *)

\* a quotient whose divisor was not zero
Finite(r) == r[2] > 0
FiniteQ(q) == Finite(q.a) /\ Finite(q.b)
FinitePoint(p) == FiniteQ(p.x) /\ FiniteQ(p.y)
FiniteLine(line) ==
    /\ FiniteQ(line.start.x) /\ FiniteQ(line.start.y) /\ Finite(line.start.z)
    /\ FiniteQ(line.end.x) /\ FiniteQ(line.end.y) /\ Finite(line.end.z)

\* the top chain, the top terminus, one junction per pair of neighbouring
\* segments, the floor terminus and the closing point
FullPolygon ==
    /\ Len(stepCoords) = config.numSteps
    /\ Len(scan.segments) >= 1
    /\ Len(shape) = TopLen + 1 + (Len(scan.segments) - 1) + FloorLen + 1
    /\ \A k \in DOMAIN shape : FinitePoint(shape[k])

FullAnnotations ==
    /\ dims # <<>>
    /\ Len(Drawn(Lines)) >= 5 + Len(config.landings)
    /\ \A k \in DOMAIN Drawn(Lines) : FiniteLine(Drawn(Lines)[k].line)

PositiveSlope == Finite(Slope(config)) /\ RSign(Slope(config)) > 0

\* the step loop has run once for each of the steps 1..numSteps
TopChainComplete ==
    /\ Len(stepCoords) = config.numSteps
    /\ Len(shape) >= TopLen
    /\ \A i \in 1 .. config.numSteps : stepCoords[i].stepIdx = i

\* the scan has passed every step
ScanComplete ==
    /\ Len(scan.segments) >= 1
    /\ scan.segments[Len(scan.segments)].endStep = config.numSteps

\* C24: for a valid spec the slope is a positive number and every stage of
\* the computation is complete once it has run: the step loop over all the
\* steps, the scan over all of them, the backward loop with one junction
\* per pair of segments, the annotation lines; every coordinate is finite
C24_Total ==
    ValidSpec(config) =>
        /\ PositiveSlope
        /\ pc # "start" => TopChainComplete
        /\ pc \in {"segments", "done", "dims"} => ScanComplete
        /\ pc \in {"done", "dims"} => FullPolygon
        /\ pc = "dims" => FullAnnotations
        /\ lastRun # <<>> =>
               /\ \A k \in DOMAIN lastRun[1].shape : FinitePoint(lastRun[1].shape[k])
               /\ Len(lastRun[1].shape) = Len(shape)

\* three segments under a slab: both junction branches and the flight
\* floor terminus have divided by the slope
C24_Witness ==
    /\ DimsBuilt
    /\ ValidSpec(config)
    /\ config.slabThickness > 0
    /\ SegTypes = <<"flight", "landing", "flight">>
    /\ FullPolygon
    /\ FullAnnotations
    /\ Lines.thicknessLine # <<>>
    /\ ~SameQ(JunctionAt(2).x, QZero)

(* The two versions of the soffit *)

OldRendered == oldRun # <<>>

\* the soffit points of the earlier version's polygon, the closing point
\* left out
OldSoffitPoints == SubSeq(oldRun[1], TopLen + 1, Len(oldRun[1]) - 1)

InteriorLanding ==
    /\ Len(config.landings) = 1
    /\ config.landings[1].stepIndex > 1
    /\ config.landings[1].stepIndex < config.numSteps

\* C28: with one landing at an interior step, the soffit vertices (top
\* terminus, upper junction, lower junction, floor terminus) are those of
\* the earlier single-landing construction
C28_SameAsSingleLanding ==
    (OldRendered /\ ValidSpec(config) /\ InteriorLanding) =>
        /\ Len(OldSoffitPoints) = 4
        /\ Len(SoffitProper) = 4
        /\ \A k \in 1 .. 4 : SamePt(SoffitProper[k], OldSoffitPoints[k])

\* a landing deeper than a tread under a slab: four different vertices
C28_Witness ==
    /\ OldRendered
    /\ ValidSpec(config)
    /\ InteriorLanding
    /\ config.slabThickness > 0
    /\ config.landings[1].depth > config.stepDepth
    /\ \A j, k \in 1 .. 4 : j # k => ~SamePt(OldSoffitPoints[j], OldSoffitPoints[k])
    /\ \A k \in 1 .. 4 : SamePt(SoffitProper[k], OldSoffitPoints[k])

====
